---- MODULE Spec2Model ----
(***************************************************************************)
(* User_Server/main.py: a FastAPI account service over one SQLite table.   *)
(*                                                                         *)
(* The durable state is the users table and its sqlite_sequence entry.     *)
(* The read handlers (get_users, get_user, login) run one SELECT on their  *)
(* own connection and are one step each.  create_user is three steps on a  *)
(* worker thread: get_db(), the INSERT statement (which opens the implicit *)
(* transaction and takes SQLite's write lock), and commit/close/return.    *)
(* Every handler opens its own connection, so workers interleave freely.   *)
(***************************************************************************)
EXTENDS Integers, Sequences, FiniteSets, TLC

\* ---------------------------------------------------------------- bounds
NWorkers == 2
MaxLeaked == 1

Workers == 1..NWorkers
Usernames == {"alice", "bob"}
Emails == {"a@x.com", "b@x.com"}
Passwords == {"secret", "wrong"}
UserIds == 1..3
Timestamps == {"2024-01-01T00:00:00"}

\* ------------------------------------------------------- response bodies
MsgSignupOk == "signup ok"
DetailDuplicate == "user already exists"
DetailUserNotFound == "User not found"
DetailLoginNotFound == "id or password differs"
DetailMismatch == "password differs"
DetailServerError == "Internal Server Error"

VARIABLES
    started,   \* lifespan has run init_db: the users table exists
    users,     \* committed rows of the users table
    seq,       \* sqlite_sequence entry of users (largest rowid ever committed)
    pc,        \* per worker: position inside create_user
    req,       \* per worker: the UserCreate body being handled
    txn,       \* per worker: the row written by INSERT, not yet committed
    conns,     \* number of sqlite3 connections currently open
    out,       \* the last HTTP response sent
    succ       \* history: the registrations answered 200, in order

vars == <<started, users, seq, pc, req, txn, conns, out, succ>>

NoReq == [username |-> "", email |-> "", password |-> ""]
NoRow == [id |-> 0]
NoResponse == [op |-> "none", status |-> 0]

\* ---------------------------------------------------------- pure helpers
\* Fault variant: a digest that does not depend on the password.
hash_password_const(password) == <<"sha256", "">>

hash_password(password) == <<"sha256", password>>

isoformat(t) == <<"iso8601", t>>

HasUsername(tbl, u) == \E r \in tbl : r.username = u

RowByUsername(tbl, u) == CHOOSE r \in tbl : r.username = u

MaxRowid(tbl) == IF tbl = {} THEN 0 ELSE CHOOSE m \in {r.id : r \in tbl} : \A r \in tbl : r.id <= m

\* Fault variant: every INSERT is given rowid 1.
NextRowidFixed(tbl, s) == 1

\* AUTOINCREMENT: one more than the largest rowid the table has ever held.
NextRowid(tbl, s) == (IF MaxRowid(tbl) > s THEN MaxRowid(tbl) ELSE s) + 1

\* The columns selected by get_users and get_user (no password column).
Projection(r) == [id |-> r.id, username |-> r.username, email |-> r.email, created_at |-> r.created_at]

\* A table scan visits the rows in ascending rowid order.
RECURSIVE ScanByRowid(_)
ScanByRowid(tbl) ==
    IF tbl = {} THEN <<>>
    ELSE LET first == CHOOSE r \in tbl : \A q \in tbl : r.id <= q.id
         IN <<first>> \o ScanByRowid(tbl \ {first})

\* Fault variant: the rows are returned last first.
MapProjectionReversed(rows) == [i \in 1..Len(rows) |-> Projection(rows[Len(rows) + 1 - i])]

MapProjection(rows) == [i \in 1..Len(rows) |-> Projection(rows[i])]

Welcome(u) == <<u, " welcome">>

InFlight == {w \in Workers : pc[w] # "idle"}

\* Fault variant: INSERT statements do not exclude one another.
WriteLockedNever == FALSE

\* SQLite's RESERVED lock: held from a successful INSERT until commit.
WriteLocked == \E w \in Workers : pc[w] = "inserted"

\* ---------------------------------------------------------------- Init
Init ==
    /\ started = FALSE
    /\ users = {}
    /\ seq = 0
    /\ pc = [w \in Workers |-> "idle"]
    /\ req = [w \in Workers |-> NoReq]
    /\ txn = [w \in Workers |-> NoRow]
    /\ conns = 0
    /\ out = NoResponse
    /\ succ = <<>>

\* ------------------------------------------------------------- actions
\* lifespan -> init_db: CREATE TABLE IF NOT EXISTS, commit, close.
init_db ==
    /\ ~started
    /\ started' = TRUE
    /\ UNCHANGED <<users, seq, pc, req, txn, conns, out, succ>>

\* GET /users
get_users ==
    /\ started
    /\ out' = [op |-> "get_users", status |-> 200, body |-> MapProjection(ScanByRowid(users))]
    /\ UNCHANGED <<started, users, seq, pc, req, txn, conns, succ>>

\* Fault variant: SELECT * instead of the four columns.
get_user_star(user_id) ==
    /\ started
    /\ LET found == {r \in users : r.id = user_id}
       IN IF found = {}
          THEN out' = [op |-> "get_user", user_id |-> user_id, status |-> 404, detail |-> DetailUserNotFound]
          ELSE out' = [op |-> "get_user", user_id |-> user_id, status |-> 200,
                       body |-> CHOOSE r \in found : TRUE]
    /\ UNCHANGED <<started, users, seq, pc, req, txn, conns, succ>>

\* GET /users/{user_id}
get_user(user_id) ==
    /\ started
    /\ LET found == {r \in users : r.id = user_id}
       IN IF found = {}
          THEN out' = [op |-> "get_user", user_id |-> user_id, status |-> 404, detail |-> DetailUserNotFound]
          ELSE out' = [op |-> "get_user", user_id |-> user_id, status |-> 200,
                       body |-> Projection(CHOOSE r \in found : TRUE)]
    /\ UNCHANGED <<started, users, seq, pc, req, txn, conns, succ>>

\* Fault variant: an unknown username is answered like a wrong password.
login_unified(username, password) ==
    /\ started
    /\ IF ~HasUsername(users, username) \/ hash_password(password) # RowByUsername(users, username).password
       THEN out' = [op |-> "login", username |-> username, status |-> 400, detail |-> DetailMismatch]
       ELSE out' = [op |-> "login", username |-> username, status |-> 200, message |-> Welcome(username)]
    /\ UNCHANGED <<started, users, seq, pc, req, txn, conns, succ>>

\* Fault variant: a successful login also writes to the database.
login_writes(username, password) ==
    /\ started
    /\ IF ~HasUsername(users, username)
       THEN /\ out' = [op |-> "login", username |-> username, status |-> 404, detail |-> DetailLoginNotFound]
            /\ UNCHANGED seq
       ELSE IF hash_password(password) # RowByUsername(users, username).password
            THEN /\ out' = [op |-> "login", username |-> username, status |-> 400, detail |-> DetailMismatch]
                 /\ UNCHANGED seq
            ELSE /\ out' = [op |-> "login", username |-> username, status |-> 200, message |-> Welcome(username)]
                 /\ seq' = seq + 1
    /\ UNCHANGED <<started, users, pc, req, txn, conns, succ>>

\* POST /login
login(username, password) ==
    /\ started
    /\ IF ~HasUsername(users, username)
       THEN out' = [op |-> "login", username |-> username,
                    status |-> 404, detail |-> DetailLoginNotFound]
       ELSE IF hash_password(password) # RowByUsername(users, username).password
            THEN out' = [op |-> "login", username |-> username,
                         status |-> 400, detail |-> DetailMismatch]
            ELSE out' = [op |-> "login", username |-> username,
                         status |-> 200, message |-> Welcome(username)]
    /\ UNCHANGED <<started, users, seq, pc, req, txn, conns, succ>>

\* POST /users, lines 88-89: conn = get_db(); cur = conn.cursor()
get_db(w, username, email, password) ==
    /\ started
    /\ pc[w] = "idle"
    /\ pc' = [pc EXCEPT ![w] = "opened"]
    /\ req' = [req EXCEPT ![w] = [username |-> username, email |-> email, password |-> password]]
    /\ conns' = conns + 1
    /\ UNCHANGED <<started, users, seq, txn, out, succ>>

\* The row the INSERT statement of worker w writes.
InsertedRow(w, utcnow) ==
    [id |-> NextRowid(users, seq),
     username |-> req[w].username,
     email |-> req[w].email,
     password |-> hash_password(req[w].password),
     created_at |-> isoformat(utcnow)]

\* Fault variant: the username column has no UNIQUE constraint.
UniqueViolationNever(w) == FALSE

\* The UNIQUE constraint on username, checked by the INSERT statement.
UniqueViolation(w) == HasUsername(users, req[w].username)

\* POST /users, lines 90-99: the INSERT statement.  It waits for the write
\* lock; a UNIQUE violation raises IntegrityError: close, HTTP 400.
create_user_execute(w) ==
    /\ pc[w] = "opened"
    /\ ~WriteLocked
    /\ IF UniqueViolation(w)
       THEN /\ pc' = [pc EXCEPT ![w] = "idle"]
            /\ req' = [req EXCEPT ![w] = NoReq]
            /\ conns' = conns - 1
            /\ out' = [op |-> "create_user", status |-> 400, detail |-> DetailDuplicate]
            /\ UNCHANGED txn
       ELSE /\ pc' = [pc EXCEPT ![w] = "inserted"]
            /\ \E utcnow \in Timestamps : txn' = [txn EXCEPT ![w] = InsertedRow(w, utcnow)]
            /\ UNCHANGED <<req, conns, out>>
    /\ UNCHANGED <<started, users, seq, succ>>

\* Fault variant: the committed row replaces the table's rows.
create_user_commit_replace(w) ==
    /\ pc[w] = "inserted"
    /\ users' = {txn[w]}
    /\ seq' = txn[w].id
    /\ succ' = Append(succ, [username |-> req[w].username, email |-> req[w].email,
                             password |-> req[w].password, id |-> txn[w].id,
                             created_at |-> txn[w].created_at])
    /\ pc' = [pc EXCEPT ![w] = "idle"]
    /\ req' = [req EXCEPT ![w] = NoReq]
    /\ txn' = [txn EXCEPT ![w] = NoRow]
    /\ conns' = conns - 1
    /\ out' = [op |-> "create_user", status |-> 200, message |-> MsgSignupOk]
    /\ UNCHANGED started

\* POST /users, lines 96, 100-101: conn.commit(); conn.close(); return.
create_user_commit(w) ==
    /\ pc[w] = "inserted"
    /\ users' = users \cup {txn[w]}
    /\ seq' = txn[w].id
    /\ succ' = Append(succ, [username |-> req[w].username, email |-> req[w].email,
                             password |-> req[w].password, id |-> txn[w].id,
                             created_at |-> txn[w].created_at])
    /\ pc' = [pc EXCEPT ![w] = "idle"]
    /\ req' = [req EXCEPT ![w] = NoReq]
    /\ txn' = [txn EXCEPT ![w] = NoRow]
    /\ conns' = conns - 1
    /\ out' = [op |-> "create_user", status |-> 200, message |-> MsgSignupOk]
    /\ UNCHANGED started

\* POST /users, line 92 when the write lock stays held past the connection's
\* busy timeout: sqlite3.OperationalError, which line 97 does not catch.
create_user_busy(w) ==
    /\ pc[w] = "opened"
    /\ WriteLocked
    /\ conns - Cardinality(InFlight) < MaxLeaked
    /\ pc' = [pc EXCEPT ![w] = "idle"]
    /\ req' = [req EXCEPT ![w] = NoReq]
    /\ out' = [op |-> "create_user", status |-> 500, detail |-> DetailServerError]
    /\ UNCHANGED <<started, users, seq, txn, conns, succ>>

Next ==
    \/ init_db
    \/ get_users
    \/ \E user_id \in UserIds : get_user(user_id)
    \/ \E u \in Usernames, p \in Passwords : login(u, p)
    \/ \E w \in Workers, u \in Usernames, e \in Emails, p \in Passwords : get_db(w, u, e, p)
    \/ \E w \in Workers : create_user_execute(w)
    \/ \E w \in Workers : create_user_commit(w)

Spec == Init /\ [][Next]_vars

NextBusy ==
    \/ Next
    \/ \E w \in Workers : create_user_busy(w)

SpecBusy == Init /\ [][NextBusy]_vars

\* ------------------------------------------------------ history helpers
Registered(u) == \E i \in 1..Len(succ) : succ[i].username = u

RegistrationOf(u) == succ[CHOOSE i \in 1..Len(succ) : succ[i].username = u]

\* The row a successful registration wrote, as recorded when it was answered.
RowWritten(s) ==
    [id |-> s.id, username |-> s.username, email |-> s.email,
     password |-> hash_password(s.password), created_at |-> s.created_at]

\* What GET /users and GET /users/{id} show of a successful registration.
EntryOf(s) == [id |-> s.id, username |-> s.username, email |-> s.email, created_at |-> s.created_at]

PendingRows == {txn[w] : w \in {v \in Workers : pc[v] = "inserted"}}

StoreUnchanged == users' = users /\ seq' = seq

\* ------------------------------------------------------------------ C1
C1_Step(w) ==
    (pc[w] = "opened" /\ pc'[w] # "opened" /\ Registered(req[w].username)) =>
        /\ pc'[w] = "idle"
        /\ out' = [op |-> "create_user", status |-> 400, detail |-> DetailDuplicate]
        /\ {r \in users' : r.username = req[w].username} = {RowWritten(RegistrationOf(req[w].username))}

C2_Step(u, p) ==
    (login(u, p) /\ Registered(u)) =>
        IF p = RegistrationOf(u).password
        THEN out'.status = 200 /\ \E k \in 1..Len(out'.message) : out'.message[k] = u
        ELSE out'.status = 400 /\ out'.detail = DetailMismatch

\* C2: after a successful registration of (u, p) and any further requests,
\* login(u, p) is answered 200 with a message containing u, and login(u, q)
\* with q # p is answered 400 CredentialMismatch.
C2_LoginMatchesRegistration == [][\A u \in Usernames, p \in Passwords : C2_Step(u, p)]_vars

C2_Witness ==
    /\ out.op = "login"
    /\ out.status = 200
    /\ Len(succ) = 2
    /\ out.username = succ[1].username

\* ------------------------------------------------------------------ C3
C3_NoDuplicateRow ==
    /\ \A r1, r2 \in users \cup PendingRows : r1.username = r2.username => r1 = r2
    /\ \A i, j \in 1..Len(succ) : succ[i].username = succ[j].username => i = j

C3_Step(w) ==
    (pc[w] # "idle" /\ pc'[w] = "idle") =>
        \/ /\ out' = [op |-> "create_user", status |-> 200, message |-> MsgSignupOk]
           /\ ~HasUsername(users, req[w].username)
           /\ HasUsername(users', req[w].username)
           /\ \A v \in Workers \ {w} :
                  (pc[v] # "idle" /\ req[v].username = req[w].username) => pc'[v] = "opened"
        \/ /\ out' = [op |-> "create_user", status |-> 400, detail |-> DetailDuplicate]
           /\ HasUsername(users, req[w].username)
           /\ StoreUnchanged

C4_Step(u, p) ==
    login(u, p) =>
        /\ out'.status \in {200, 400, 404}
        /\ (out'.status = 404) <=> ~HasUsername(users, u)

\* C4: a login for a username with no row is answered 404 whatever the
\* password, a login for a username with a row is never answered 404, and
\* every login is answered exactly one of 200, 400, 404.
C4_LoginOutcomes == [][\A u \in Usernames, p \in Passwords : C4_Step(u, p)]_vars

C4_Witness ==
    /\ out.op = "login"
    /\ out.status = 404
    /\ users # {}

\* ------------------------------------------------------------------ C5
C5_Step(user_id) ==
    get_user(user_id) =>
        IF \E i \in 1..Len(succ) : succ[i].id = user_id
        THEN \E i \in 1..Len(succ) :
                /\ succ[i].id = user_id
                /\ out' = [op |-> "get_user", user_id |-> user_id, status |-> 200, body |-> EntryOf(succ[i])]
        ELSE out' = [op |-> "get_user", user_id |-> user_id, status |-> 404, detail |-> DetailUserNotFound]

\* C5: GET /users/{id} is answered 404 for an id no account has, and 200
\* with exactly the id, username, email and created_at (no password digest)
\* of the account registered with that id otherwise.
C5_GetUser == [][\A user_id \in UserIds : C5_Step(user_id)]_vars

C5_Witness ==
    /\ out.op = "get_user"
    /\ out.status = 200
    /\ out.user_id = 2

\* ------------------------------------------------------------------ C6
C6_Step ==
    get_users =>
        /\ out'.status = 200
        /\ Len(out'.body) = Len(succ)
        /\ \A i \in 1..Len(succ) : out'.body[i] = EntryOf(succ[i])

\* C6: GET /users returns exactly one entry per successful registration, in
\* the order the registrations succeeded, each with the id, username, email
\* and created_at of that account and no password digest.
C6_ListUsers == [][C6_Step]_vars

C6_Witness ==
    /\ out.op = "get_users"
    /\ Len(out.body) = 2
    /\ Len(succ) = 2

\* ------------------------------------------------------------------ C7
\* C7: a row of the table is in the table, unchanged, in every later state.
C7_RowsImmutable == [][\A r \in users : r \in users']_vars

C7_Witness ==
    /\ Cardinality(users) = 2
    /\ out.op = "create_user"
    /\ out.status = 400

\* ------------------------------------------------------------------ C8
C8_ReadOnly ==
    /\ pc' = pc
    /\ req' = req
    /\ txn' = txn
    /\ conns' = conns
    /\ succ' = succ
    /\ StoreUnchanged

C8_Step ==
    /\ \A u \in Usernames, p \in Passwords : login(u, p) => C8_ReadOnly
    /\ get_users => C8_ReadOnly
    /\ \A user_id \in UserIds : get_user(user_id) => C8_ReadOnly
    /\ ~StoreUnchanged =>
           \E w \in Workers :
               /\ pc[w] = "inserted"
               /\ out' = [op |-> "create_user", status |-> 200, message |-> MsgSignupOk]

\* C8: POST /login, GET /users and GET /users/{id} leave the rows, the next
\* id, the connections and the requests in flight as they were, whatever
\* they answer; the store changes only in a step that answers POST /users
\* with 200.
C8_OnlyRegisterWrites == [][C8_Step]_vars

C8_Witness ==
    /\ out.op = "login"
    /\ out.status = 400
    /\ users # {}

\* ------------------------------------------------------------------ C9
\* C9: every connection a handler opened is closed when the handler has
\* returned, whether it returned a result or a failure: no connection is
\* open whenever no request is in flight.
C9_ConnectionsReleased == (InFlight = {}) => conns = 0

\* ----------------------------------------------------------------- C10
\* C10: no two rows share an id, and every registration gets an id larger
\* than the id of every account created before it.
C10_IdsIncrease ==
    /\ \A r1, r2 \in users : r1.id = r2.id => r1 = r2
    /\ {r.id : r \in users} = {succ[i].id : i \in 1..Len(succ)}
    /\ \A i, j \in 1..Len(succ) : i < j => succ[i].id < succ[j].id
    /\ \A t \in PendingRows : \A r \in users : r.id < t.id

C10_Witness ==
    /\ Cardinality(users) = 1
    /\ out.op = "create_user"
    /\ out.status = 400
    /\ \E t \in PendingRows : t.id = 2

====
